---- MODULE Spec2Model ----
(***************************************************************************)
(* Model of the JSON Schema validation engine of src/validator.py          *)
(* (class JsonSchemaValidator).                                            *)
(*                                                                         *)
(* A decoded JSON value (what json.loads returns) is a record [k, v]:      *)
(*   k = "null"  v = 0                      None                           *)
(*   k = "bool"  v = 0 or 1                 False / True                   *)
(*   k = "int"   v = n                      int n                          *)
(*   k = "float" v = h                      float h/2 (v counts halves)    *)
(*   k = "str"   v = sequence of characters str                            *)
(*   k = "arr"   v = sequence of values     list                           *)
(*   k = "obj"   v = sequence of <<key, value>> pairs, keys distinct,      *)
(*               in insertion order         dict                           *)
(* A Python str is a sequence of one-character strings, so that paths are  *)
(* built by concatenation and patterns are matched character by character. *)
(*                                                                         *)
(* An error message is the record [path, kind, arg]: the path prefix of    *)
(* the message, which of the six message formats it is, and the keyword    *)
(* argument the message quotes.  The rendering of the offending value      *)
(* inside the message text is not modelled.                                *)
(***************************************************************************)
EXTENDS Integers, Sequences, FiniteSets, TLC

VARIABLES errors, result, document, schema, log, before, calls

vars == <<errors, result, document, schema, log, before, calls>>

-----------------------------------------------------------------------------
(* Bounds of the input universe.                                           *)

MaxArrLen == 3

MaxKeywords == 2

MaxCalls == 2

-----------------------------------------------------------------------------
(* JSON values.                                                            *)

JNull == [k |-> "null", v |-> 0]

JBool(b) == [k |-> "bool", v |-> IF b THEN 1 ELSE 0]

JInt(n) == [k |-> "int", v |-> n]

JFloat(h) == [k |-> "float", v |-> h]

JStr(s) == [k |-> "str", v |-> s]

JArr(s) == [k |-> "arr", v |-> s]

JObj(s) == [k |-> "obj", v |-> s]

IsStr(x) == x.k = "str"

IsDict(x) == x.k = "obj"

IsList(x) == x.k = "arr"

\* hash(x) succeeds: list and dict are the unhashable kinds.
Hashable(x) == x.k \notin {"arr", "obj"}

Keys(o) == [i \in 1..Len(o.v) |-> o.v[i][1]]

\* key in o, for a dict o and a str key.
HasKey(o, key) == \E i \in 1..Len(o.v) : o.v[i][1] = key

\* o[key], for a key the dict holds.
Get(o, key) == o.v[CHOOSE i \in 1..Len(o.v) : o.v[i][1] = key][2]

\* The number a bool, int or float stands for, in halves.
NumVal(x) == IF x.k = "float" THEN x.v ELSE 2 * x.v

IsNum(x) == x.k \in {"bool", "int", "float"}

RECURSIVE PyEq(_, _)
\* Python's a == b on decoded JSON values: bool is a subclass of int, so
\* True == 1 and False == 0, and 1 == 1.0; lists compare element by element,
\* dicts by key set and value, whatever the insertion order.
PyEq(a, b) ==
    IF IsNum(a) /\ IsNum(b) THEN NumVal(a) = NumVal(b)
    ELSE IF a.k # b.k THEN FALSE
    ELSE CASE a.k = "null" -> TRUE
           [] a.k = "str" -> a.v = b.v
           [] a.k = "arr" -> /\ Len(a.v) = Len(b.v)
                             /\ \A i \in 1..Len(a.v) : PyEq(a.v[i], b.v[i])
           [] a.k = "obj" -> /\ Len(a.v) = Len(b.v)
                             /\ \A i \in 1..Len(a.v) :
                                   /\ HasKey(b, a.v[i][1])
                                   /\ PyEq(a.v[i][2], Get(b, a.v[i][1]))

\* a in b for two Python strings: substring test.
IsSubstring(a, b) ==
    \E i \in 0..(Len(b) - Len(a)) : SubSeq(b, i + 1, i + Len(a)) = a

\* The outcome of "x in c": "true", "false", or "raise" (TypeError).
PyIn(x, c) ==
    CASE c.k = "arr" ->
            IF \E i \in 1..Len(c.v) : PyEq(c.v[i], x) THEN "true" ELSE "false"
      [] c.k = "obj" ->
            IF ~Hashable(x) THEN "raise"
            ELSE IF IsStr(x) /\ HasKey(c, x.v) THEN "true" ELSE "false"
      [] c.k = "str" ->
            IF ~IsStr(x) THEN "raise"
            ELSE IF IsSubstring(x.v, c.v) THEN "true" ELSE "false"
      [] OTHER -> "raise"

-----------------------------------------------------------------------------
(* The strings the engine names.                                           *)

KType == <<"t", "y", "p", "e">>

KEnum == <<"e", "n", "u", "m">>

KPattern == <<"p", "a", "t", "t", "e", "r", "n">>

KRequired == <<"r", "e", "q", "u", "i", "r", "e", "d">>

KProperties == <<"p", "r", "o", "p", "e", "r", "t", "i", "e", "s">>

KItems == <<"i", "t", "e", "m", "s">>

TString == <<"s", "t", "r", "i", "n", "g">>

TNumber == <<"n", "u", "m", "b", "e", "r">>

TInteger == <<"i", "n", "t", "e", "g", "e", "r">>

TBoolean == <<"b", "o", "o", "l", "e", "a", "n">>

TObject == <<"o", "b", "j", "e", "c", "t">>

TArray == <<"a", "r", "r", "a", "y">>

TNull == <<"n", "u", "l", "l">>

-----------------------------------------------------------------------------
(* The validator's state while one call runs: the error list, the history  *)
(* of checks that have returned, and whether an exception is propagating.  *)

NewSt(errs) == [errors |-> errs, log |-> <<>>, raised |-> FALSE]

\* self.errors.append(f"{path}: ...")
AddError(st, path, kind, arg) ==
    [st EXCEPT !.errors = Append(@, [path |-> path, kind |-> kind, arg |-> arg])]

Raise(st) == [ok |-> FALSE, st |-> [st EXCEPT !.raised = TRUE]]

Ret(b, st) == [ok |-> b, st |-> st]

\* The check did not let the node go on: it returned False or raised.
Failed(r) == r.st.raised \/ ~r.ok

Outcome(r) == IF r.st.raised THEN "raised" ELSE IF r.ok THEN "true" ELSE "false"

\* History: one entry per call of _validate_value ("node") and per call of a
\* keyword check, appended when the call ends; pre and post are self.errors
\* when it began and when it ended.  Nodes have even depth, the keyword
\* checks of a node its depth plus one, the nodes they visit plus two.
Logged(st0, r, kw, depth, path, value, arg) ==
    [r EXCEPT !.st.log = Append(@,
        [kw |-> kw, depth |-> depth, path |-> path, value |-> value,
         arg |-> arg, pre |-> st0.errors, post |-> r.st.errors,
         ok |-> Outcome(r)])]

-----------------------------------------------------------------------------
(* _check_single_type and _validate_type.                                  *)

\* _check_single_type without the "not isinstance(x, bool)" clauses.
CheckSingleTypeBoolAsInt(value, t) ==
    IF ~IsStr(t) THEN FALSE
    ELSE CASE t.v = TString -> value.k = "str"
           [] t.v = TNumber -> value.k \in {"int", "float", "bool"}
           [] t.v = TInteger -> value.k \in {"int", "bool"}
           [] t.v = TBoolean -> value.k = "bool"
           [] t.v = TObject -> value.k = "obj"
           [] t.v = TArray -> value.k = "arr"
           [] t.v = TNull -> value.k = "null"
           [] OTHER -> FALSE

\* type_map.get(expected_type, lambda x: False)(value), for a hashable
\* expected_type; a key that is not one of the seven names gets the default.
_check_single_type(value, t) ==
    IF ~IsStr(t) THEN FALSE
    ELSE CASE t.v = TString -> value.k = "str"
           [] t.v = TNumber -> value.k \in {"int", "float"}
           [] t.v = TInteger -> value.k = "int"
           [] t.v = TBoolean -> value.k = "bool"
           [] t.v = TObject -> value.k = "obj"
           [] t.v = TArray -> value.k = "arr"
           [] t.v = TNull -> value.k = "null"
           [] OTHER -> FALSE

RECURSIVE TypeListScan(_, _, _)
\* for t in expected_type: the first name that fits ends the loop; looking
\* an unhashable entry up in type_map raises TypeError.
TypeListScan(value, ts, i) ==
    IF i > Len(ts) THEN "false"
    ELSE IF ~Hashable(ts[i]) THEN "raise"
    ELSE IF _check_single_type(value, ts[i]) THEN "true"
    ELSE TypeListScan(value, ts, i + 1)

TypeOutcome(value, expected_type) ==
    IF IsList(expected_type) THEN TypeListScan(value, expected_type.v, 1)
    ELSE IF ~Hashable(expected_type) THEN "raise"
    ELSE IF _check_single_type(value, expected_type) THEN "true" ELSE "false"

\* Error kind "type" stands for both messages, "is not one of types" (a
\* list) and "is not of type" (anything else); arg tells them apart.
_validate_type(value, expected_type, path, depth, st) ==
    LET out == TypeOutcome(value, expected_type)
        r == CASE out = "raise" -> Raise(st)
               [] out = "true" -> Ret(TRUE, st)
               [] out = "false" ->
                    Ret(FALSE, AddError(st, path, "type", expected_type))
    IN Logged(st, r, "type", depth, path, value, expected_type)

-----------------------------------------------------------------------------
(* _validate_enum.                                                         *)

_validate_enum(value, enum_values, path, depth, st) ==
    LET out == PyIn(value, enum_values)
        r == CASE out = "raise" -> Raise(st)
               [] out = "true" -> Ret(TRUE, st)
               [] out = "false" ->
                    Ret(FALSE, AddError(st, path, "enum", enum_values))
    IN Logged(st, r, "enum", depth, path, value, enum_values)

-----------------------------------------------------------------------------
(* _validate_pattern.  re.match on the pattern syntax the model draws      *)
(* from: literal characters, ".", "^", "$" and an unclosed "(".            *)

\* re.compile raises re.error: the alphabet has no ")", so every "(" is an
\* unterminated subpattern.
ReInvalid(p) == \E i \in 1..Len(p) : p[i] = "("

RECURSIVE ReMatchFrom(_, _, _, _)
\* The pattern from its i-th character matches s at offset pos.  "^" holds
\* at offset 0 only, "$" at the end only (no newline in the alphabet), "."
\* and a literal consume one character.
ReMatchFrom(p, s, i, pos) ==
    IF i > Len(p) THEN TRUE
    ELSE CASE p[i] = "^" -> pos = 0 /\ ReMatchFrom(p, s, i + 1, pos)
           [] p[i] = "$" -> pos = Len(s) /\ ReMatchFrom(p, s, i + 1, pos)
           [] p[i] = "." -> pos < Len(s) /\ ReMatchFrom(p, s, i + 1, pos + 1)
           [] OTHER -> /\ pos < Len(s)
                       /\ s[pos + 1] = p[i]
                       /\ ReMatchFrom(p, s, i + 1, pos + 1)

\* re.match(pattern, value) is not None: a match that starts at the start
\* of value and may end anywhere.
ReMatch(p, s) == ReMatchFrom(p, s, 1, 0)

\* A pattern that is not a str makes re.match raise TypeError, which the
\* except re.error clause does not catch.
_validate_pattern(value, pattern, path, depth, st) ==
    LET r == IF ~IsStr(pattern) THEN Raise(st)
             ELSE IF ReInvalid(pattern.v)
                  THEN Ret(FALSE, AddError(st, path, "invalid_pattern", pattern))
             ELSE IF ReMatch(pattern.v, value.v) THEN Ret(TRUE, st)
             ELSE Ret(FALSE, AddError(st, path, "pattern", pattern))
    IN Logged(st, r, "pattern", depth, path, value, pattern)

-----------------------------------------------------------------------------
(* _validate_required.                                                     *)

\* iter(x) succeeds.
Iterable(x) == x.k \in {"arr", "str", "obj"}

\* What iterating x yields: the elements of a list, the characters of a
\* str, the keys of a dict.
IterSeq(x) ==
    CASE x.k = "arr" -> x.v
      [] x.k = "str" -> [i \in 1..Len(x.v) |-> JStr(<<x.v[i]>>)]
      [] x.k = "obj" -> [i \in 1..Len(x.v) |-> JStr(x.v[i][1])]

RECURSIVE RequiredLoopStopsAtFirst(_, _, _, _, _, _)
\* RequiredLoop returning False at the first missing name.
RequiredLoopStopsAtFirst(obj, props, i, path, valid, st) ==
    IF i > Len(props) THEN Ret(valid, st)
    ELSE LET prop == props[i]
         IN IF ~Hashable(prop) THEN Raise(st)
            ELSE IF ~(IsStr(prop) /\ HasKey(obj, prop.v))
                 THEN Ret(FALSE, AddError(st, path, "required", prop))
            ELSE RequiredLoopStopsAtFirst(obj, props, i + 1, path, valid, st)

RECURSIVE RequiredLoop(_, _, _, _, _, _)
\* for prop in required_props: "prop not in obj" hashes prop (TypeError for
\* a list or dict); a hashable prop that is not a key of obj is missing.
RequiredLoop(obj, props, i, path, valid, st) ==
    IF i > Len(props) THEN Ret(valid, st)
    ELSE LET prop == props[i]
         IN IF ~Hashable(prop) THEN Raise(st)
            ELSE IF ~(IsStr(prop) /\ HasKey(obj, prop.v))
                 THEN RequiredLoop(obj, props, i + 1, path, FALSE,
                                   AddError(st, path, "required", prop))
            ELSE RequiredLoop(obj, props, i + 1, path, valid, st)

_validate_required(obj, required_props, path, depth, st) ==
    LET r == IF ~Iterable(required_props) THEN Raise(st)
             ELSE RequiredLoop(obj, IterSeq(required_props), 1, path, TRUE, st)
    IN Logged(st, r, "required", depth, path, obj, required_props)

-----------------------------------------------------------------------------
(* _validate_properties and _validate_array_items.                         *)

RECURSIVE _validate_value(_, _, _, _, _)

\* prop_path without the test for the empty path.
PropPathAlwaysDotted(path, prop) == path \o <<".">> \o prop

\* prop_path = f"{path}.{prop}" if path else prop
prop_path(path, prop) == IF path # <<>> THEN path \o <<".">> \o prop ELSE prop

RECURSIVE Digits(_)
\* str(i) of a natural number: its decimal digits.
Digits(i) ==
    IF i < 10 THEN <<ToString(i)>> ELSE Digits(i \div 10) \o <<ToString(i % 10)>>

\* item_path with the index counted from 1.
ItemPathFromOne(path, n) == path \o <<"[">> \o Digits(n) \o <<"]">>

\* item_path = f"{path}[{i}]", i counted from 0 (argument n counts from 1).
item_path(path, n) == path \o <<"[">> \o Digits(n - 1) \o <<"]">>

RECURSIVE PropertiesLoop(_, _, _, _, _, _, _)
\* for prop, value in obj.items(): "prop in properties_schema" is a key
\* lookup in a dict, a membership test in a list, a substring test in a str
\* and a TypeError in anything else; properties_schema[prop] raises
\* TypeError unless properties_schema is a dict.
PropertiesLoop(obj, properties_schema, i, path, depth, valid, st) ==
    IF i > Len(obj.v) THEN Ret(valid, st)
    ELSE LET prop == obj.v[i][1]
             value == obj.v[i][2]
             found == PyIn(JStr(prop), properties_schema)
         IN CASE found = "raise" -> Raise(st)
              [] found = "false" ->
                   PropertiesLoop(obj, properties_schema, i + 1, path, depth,
                                  valid, st)
              [] found = "true" ->
                   IF ~IsDict(properties_schema) THEN Raise(st)
                   ELSE LET r == _validate_value(value,
                                               Get(properties_schema, prop),
                                               prop_path(path, prop),
                                               depth + 1, st)
                        IN IF r.st.raised THEN r
                           ELSE PropertiesLoop(obj, properties_schema, i + 1,
                                               path, depth, valid /\ r.ok, r.st)

_validate_properties(obj, properties_schema, path, depth, st) ==
    Logged(st, PropertiesLoop(obj, properties_schema, 1, path, depth, TRUE, st),
           "properties", depth, path, obj, properties_schema)

RECURSIVE ItemsLoopStopsAtFirst(_, _, _, _, _, _, _)
\* ItemsLoop returning False at the first element that fails.
ItemsLoopStopsAtFirst(array, items_schema, i, path, depth, valid, st) ==
    IF i > Len(array.v) THEN Ret(valid, st)
    ELSE LET r == _validate_value(array.v[i], items_schema, item_path(path, i),
                                depth + 1, st)
         IN IF Failed(r) THEN r
            ELSE ItemsLoopStopsAtFirst(array, items_schema, i + 1, path, depth,
                                       valid, r.st)

RECURSIVE ItemsLoop(_, _, _, _, _, _, _)
\* for i, item in enumerate(array)
ItemsLoop(array, items_schema, i, path, depth, valid, st) ==
    IF i > Len(array.v) THEN Ret(valid, st)
    ELSE LET r == _validate_value(array.v[i], items_schema, item_path(path, i),
                                depth + 1, st)
         IN IF r.st.raised THEN r
            ELSE ItemsLoop(array, items_schema, i + 1, path, depth,
                           valid /\ r.ok, r.st)

_validate_array_items(array, items_schema, path, depth, st) ==
    Logged(st, ItemsLoop(array, items_schema, 1, path, depth, TRUE, st),
           "items", depth, path, array, items_schema)

-----------------------------------------------------------------------------
(* _validate_value: the keyword checks of one node, in the order of the    *)
(* code; each Kw operator is one "if keyword in schema" block and what     *)
(* follows it.                                                             *)

\* KwItems without its "return False".
KwItemsIgnoresResult(value, sch, path, depth, st) ==
    IF HasKey(sch, KItems) /\ IsList(value)
    THEN Ret(TRUE, _validate_array_items(value, Get(sch, KItems), path,
                                      depth + 1, st).st)
    ELSE Ret(TRUE, st)

KwItems(value, sch, path, depth, st) ==
    IF HasKey(sch, KItems) /\ IsList(value)
    THEN LET r == _validate_array_items(value, Get(sch, KItems), path, depth + 1, st)
         IN IF Failed(r) THEN r ELSE Ret(TRUE, r.st)
    ELSE Ret(TRUE, st)

KwProperties(value, sch, path, depth, st) ==
    IF HasKey(sch, KProperties) /\ IsDict(value)
    THEN LET r == _validate_properties(value, Get(sch, KProperties), path,
                                     depth + 1, st)
         IN IF Failed(r) THEN r ELSE KwItems(value, sch, path, depth, r.st)
    ELSE KwItems(value, sch, path, depth, st)

KwRequired(value, sch, path, depth, st) ==
    IF HasKey(sch, KRequired) /\ IsDict(value)
    THEN LET r == _validate_required(value, Get(sch, KRequired), path, depth + 1, st)
         IN IF Failed(r) THEN r ELSE KwProperties(value, sch, path, depth, r.st)
    ELSE KwProperties(value, sch, path, depth, st)

KwPattern(value, sch, path, depth, st) ==
    IF HasKey(sch, KPattern) /\ IsStr(value)
    THEN LET r == _validate_pattern(value, Get(sch, KPattern), path, depth + 1, st)
         IN IF Failed(r) THEN r ELSE KwRequired(value, sch, path, depth, r.st)
    ELSE KwRequired(value, sch, path, depth, st)

KwEnum(value, sch, path, depth, st) ==
    IF HasKey(sch, KEnum)
    THEN LET r == _validate_enum(value, Get(sch, KEnum), path, depth + 1, st)
         IN IF Failed(r) THEN r ELSE KwPattern(value, sch, path, depth, r.st)
    ELSE KwPattern(value, sch, path, depth, st)

\* KwType without its "return False": the later keywords are still checked.
KwTypeGoesOn(value, sch, path, depth, st) ==
    IF HasKey(sch, KType)
    THEN LET r == _validate_type(value, Get(sch, KType), path, depth + 1, st)
             r2 == KwEnum(value, sch, path, depth, r.st)
         IN IF r.st.raised THEN r ELSE Ret(r.ok /\ r2.ok, r2.st)
    ELSE KwEnum(value, sch, path, depth, st)

KwType(value, sch, path, depth, st) ==
    IF HasKey(sch, KType)
    THEN LET r == _validate_type(value, Get(sch, KType), path, depth + 1, st)
         IN IF Failed(r) THEN r ELSE KwEnum(value, sch, path, depth, r.st)
    ELSE KwEnum(value, sch, path, depth, st)

_validate_value(value, sch, path, depth, st) ==
    LET r == IF ~IsDict(sch)
             THEN Ret(FALSE, AddError(st, path, "schema", JNull))
             ELSE KwType(value, sch, path, depth, st)
    IN Logged(st, r, "node", depth, path, value, sch)

-----------------------------------------------------------------------------
(* validate and get_errors.                                                *)

\* validate without the clear.
ClearKeepsList(errs) == errs

\* self.errors.clear()
Clear(errs) == <<>>

\* validate(document, schema): the list is cleared, then the root is
\* checked at the empty path.
validate(doc, sch, errs) == _validate_value(doc, sch, <<>>, 0, NewSt(Clear(errs)))

-----------------------------------------------------------------------------
(* The inputs: decoded documents and decoded schemas.                      *)

SName == <<"n", "a", "m", "e">>

SAge == <<"a", "g", "e">>

SZip == <<"z", "i", "p">>

STitle == <<"t", "i", "t", "l", "e">>

SAbc == <<"a", "b", "c">>

SBca == <<"b", "c", "a">>

SFoo == <<"f", "o", "o">>

SeqsUpTo(S, n) == UNION {[1..m -> S] : m \in 0..n}

Atoms ==
    {JNull, JBool(TRUE), JBool(FALSE), JInt(0), JInt(1), JInt(42),
     JFloat(2), JFloat(3), JStr(SAbc), JStr(SBca), JStr(<<>>)}

ItemAtoms == {JInt(1), JStr(<<"x">>)}

PropAtoms == {JInt(42), JStr(SAbc)}

Arrays ==
    {JArr(s) : s \in SeqsUpTo(ItemAtoms, MaxArrLen)}
    \cup {JArr(<<JInt(1), JInt(2), JStr(<<"x">>)>>),
          JArr(<<JBool(TRUE)>>), JArr(<<JBool(FALSE), JInt(1)>>),
          JArr(<<JArr(<<JInt(1), JStr(<<"x">>)>>), JArr(<<JStr(<<"x">>)>>)>>),
          JArr(<<JObj(<< <<SName, JStr(SAbc)>> >>), JObj(<< <<SName, JInt(42)>> >>),
                 JObj(<<>>)>>)}

KeyLists == {<<>>, <<SName>>, <<SAge>>, <<SName, SAge>>, <<SAge, SName>>}

Objects ==
    UNION {{JObj([i \in 1..Len(ks) |-> <<ks[i], f[i]>>]) :
               f \in [1..Len(ks) -> PropAtoms]} : ks \in KeyLists}
    \cup {JObj(<< <<SName, JBool(TRUE)>> >>),
          JObj(<< <<SZip, JInt(1)>>, <<SName, JStr(SBca)>> >>),
          JObj(<< <<SName, JObj(<< <<SAge, JInt(42)>> >>)>>, <<SAge, JInt(42)>> >>),
          JObj(<< <<SAge, JStr(SAbc)>>, <<SName, JObj(<<>>)>> >>),
          JObj(<< <<SName, JArr(<<JInt(1), JStr(<<"x">>)>>)>> >>),
          JObj(<< <<<<>>, JInt(42)>> >>)}

Documents == Atoms \cup Arrays \cup Objects

\* {"<keyword>": arg}
Schema1(kw, arg) == JObj(<< <<kw, arg>> >>)

StrList(names) == JArr([i \in 1..Len(names) |-> JStr(names[i])])

TypeNames == {TString, TNumber, TInteger, TBoolean, TObject, TArray, TNull}

TypeArgs ==
    {JStr(t) : t \in TypeNames \cup {SFoo}}
    \cup {StrList(<<TString, TNull>>), StrList(<<TNumber, TInteger>>),
          StrList(<<TInteger, SFoo>>), StrList(<<TBoolean, TString>>),
          StrList(<<>>), StrList(<<SFoo>>),
          JInt(5), JNull, JObj(<<>>),
          JArr(<<JStr(TString), JObj(<<>>)>>), JArr(<<JInt(1)>>)}

EnumArgs ==
    {JArr(<<JInt(1)>>), JArr(<<JInt(0)>>), JArr(<<JInt(0), JInt(1)>>),
     JArr(<<JBool(TRUE)>>), JArr(<<JBool(FALSE)>>),
     JArr(<<JBool(TRUE), JBool(FALSE)>>),
     JArr(<<JStr(SAbc), JInt(42)>>), JArr(<<JNull>>), JArr(<<>>),
     JArr(<<JArr(<<JInt(1)>>)>>), JArr(<<JArr(<<JBool(FALSE), JBool(TRUE)>>)>>),
     JArr(<<JObj(<< <<SName, JInt(1)>> >>)>>),
     JArr(<<JObj(<< <<SAge, JInt(42)>>, <<SName, JStr(SAbc)>> >>)>>),
     JInt(5), JNull, JStr(SAbc), JObj(<< <<SAbc, JInt(1)>> >>)}

PatternArgs ==
    {JStr(<<"^", "a">>), JStr(<<"a">>), JStr(<<"b", ".">>), JStr(<<"a", "$">>),
     JStr(<<"c", "^">>), JStr(<<>>), JStr(<<"(">>), JStr(<<"a", "(">>),
     JInt(5), JNull, JArr(<<JStr(<<"a">>)>>)}

RequiredArgs ==
    {StrList(<<SName>>), StrList(<<SName, SAge>>), StrList(<<SAge, SName>>),
     StrList(<<SZip, SName, SAge>>), StrList(<<SName, SName>>), StrList(<<>>),
     JInt(5), JNull, JStr(SAge), JArr(<<JInt(1)>>),
     JArr(<<JStr(SZip), JArr(<<>>)>>), JObj(<< <<SName, JInt(1)>> >>)}

TStr == Schema1(KType, JStr(TString))

TInt == Schema1(KType, JStr(TInteger))

PropertiesArgs ==
    {JObj(<< <<SName, TStr>> >>),
     JObj(<< <<SName, TStr>>, <<SAge, TInt>> >>),
     JObj(<< <<SAge, TInt>>, <<SZip, TInt>> >>),
     JObj(<< <<SName, Schema1(KProperties, JObj(<< <<SAge, TStr>> >>))>>,
             <<SAge, TInt>> >>),
     JObj(<< <<SName, Schema1(KRequired, StrList(<<SZip, SAge>>))>>,
             <<SAge, TInt>> >>),
     JObj(<< <<SName, Schema1(KItems, TInt)>> >>),
     JObj(<< <<SName, JInt(5)>>, <<SAge, TInt>> >>),
     JObj(<< <<<<>>, TStr>> >>),
     JObj(<< <<SAge, Schema1(KEnum, JInt(5))>>, <<SName, TStr>> >>),
     JObj(<<>>),
     JInt(5), JNull, JStr(SName), JArr(<<JStr(SName)>>), JArr(<<>>)}

ItemsArgs ==
    {TInt, TStr, Schema1(KEnum, JArr(<<JInt(1)>>)),
     Schema1(KItems, TInt),
     Schema1(KProperties, JObj(<< <<SName, TStr>> >>)),
     Schema1(KRequired, StrList(<<SName>>)),
     Schema1(KPattern, JInt(5)),
     JObj(<< <<KRequired, StrList(<<SAge>>)>>,
             <<KProperties, JObj(<< <<SName, TStr>> >>)>> >>),
     JObj(<<>>), JInt(5), JArr(<<TInt>>), JNull}

KwOrder == <<KType, KEnum, KPattern, KRequired, KProperties, KItems, STitle>>

\* The arguments the schemas of several keywords draw from.
ComboArgs(i) ==
    CASE i = 1 -> {JStr(TString), JStr(TObject), JStr(TArray)}
      [] i = 2 -> {JArr(<<JStr(SAbc), JArr(<<JInt(1)>>),
                          JObj(<< <<SName, JStr(SAbc)>> >>)>>),
                   JArr(<<JInt(1)>>)}
      [] i = 3 -> {JStr(<<"^", "a">>), JStr(<<"(">>)}
      [] i = 4 -> {StrList(<<SName>>), StrList(<<SAge, SName>>)}
      [] i = 5 -> {JObj(<< <<SName, TStr>> >>),
                   JObj(<< <<SName, TStr>>, <<SAge, TInt>> >>)}
      [] i = 6 -> {TInt, JInt(5)}
      [] i = 7 -> {JStr(SAbc)}

RECURSIVE Combos(_, _)
\* The key/argument lists of exactly n keywords, taken in KwOrder from the
\* i-th on.
Combos(i, n) ==
    IF n = 0 THEN {<<>>}
    ELSE IF i > Len(KwOrder) THEN {}
    ELSE Combos(i + 1, n)
         \cup {<< <<KwOrder[i], a>> >> \o rest :
                  a \in ComboArgs(i), rest \in Combos(i + 1, n - 1)}

Schemas ==
    {Schema1(KType, a) : a \in TypeArgs}
    \cup {Schema1(KEnum, a) : a \in EnumArgs}
    \cup {Schema1(KPattern, a) : a \in PatternArgs}
    \cup {Schema1(KRequired, a) : a \in RequiredArgs}
    \cup {Schema1(KProperties, a) : a \in PropertiesArgs}
    \cup {Schema1(KItems, a) : a \in ItemsArgs}
    \cup {JObj(c) : c \in UNION {Combos(1, n) : n \in 2..MaxKeywords}}
    \cup {JObj(<<>>), Schema1(STitle, JStr(SAbc)),
          JObj(<< <<KItems, TInt>>, <<KType, JStr(TArray)>> >>),
          JNull, JInt(5), JBool(TRUE), JStr(TString), JArr(<<TStr>>)}

\* The inputs of the runs that call validate several times on one instance.
SeqDocuments ==
    {JInt(42), JBool(TRUE), JStr(SBca), JObj(<<>>),
     JObj(<< <<SName, JInt(42)>> >>),
     JArr(<<JInt(1), JInt(2), JStr(<<"x">>)>>),
     JArr(<<JStr(<<"x">>), JStr(<<"x">>)>>)}

SeqSchemas ==
    {JObj(<<>>), TStr, TInt, JInt(5),
     Schema1(KEnum, JInt(5)),
     Schema1(KPattern, JStr(<<"^", "a">>)),
     Schema1(KRequired, StrList(<<SName, SAge>>)),
     Schema1(KProperties, JObj(<< <<SName, TStr>> >>)),
     Schema1(KItems, TInt),
     Schema1(KItems, Schema1(KType, JObj(<<>>)))}

-----------------------------------------------------------------------------
(* The state machine.  errors is self.errors; result is what the last      *)
(* validate call did ("true", "false", or "raised" when an exception left  *)
(* it; "none" before the first call); document and schema are its          *)
(* arguments; log is the history of the checks it made; before is         *)
(* self.errors as the call found it; calls counts the calls on this        *)
(* instance.                                                               *)

\* JsonSchemaValidator(): self.errors = []
Init ==
    /\ errors = <<>>
    /\ result = "none"
    /\ document = JNull
    /\ schema = JNull
    /\ log = <<>>
    /\ before = <<>>
    /\ calls = 0

\* is_valid = validator.validate(doc, sch), then validator.get_errors()
ValidateAndGetErrors(doc, sch) ==
    LET r == validate(doc, sch, errors)
    IN /\ errors' = r.st.errors
       /\ result' = Outcome(r)
       /\ document' = doc
       /\ schema' = sch
       /\ log' = r.st.log
       /\ before' = errors
       /\ calls' = calls + 1

\* The /validate route: a new validator for the request, one call.
Next ==
    /\ calls = 0
    /\ \E doc \in Documents, sch \in Schemas : ValidateAndGetErrors(doc, sch)

Spec == Init /\ [][Next]_vars

\* One validator instance, called again and again.
NextSeq ==
    /\ calls < MaxCalls
    /\ \E doc \in SeqDocuments, sch \in SeqSchemas : ValidateAndGetErrors(doc, sch)

SpecSeq == Init /\ [][NextSeq]_vars

-----------------------------------------------------------------------------
(* Reading the history.                                                    *)

IsPrefix(a, b) == Len(a) <= Len(b) /\ SubSeq(b, 1, Len(a)) = a

\* The errors the call of history entry e appended.
Appended(e) == SubSeq(e.post, Len(e.pre) + 1, Len(e.post))

RECURSIVE SortSet(_)
SortSet(S) ==
    IF S = {} THEN <<>>
    ELSE LET m == CHOOSE x \in S : \A y \in S : x <= y
         IN <<m>> \o SortSet(S \ {m})

\* The calls made inside call j are the entries right before it that are
\* deeper than it; the ones it made itself are one level deeper.
Start(j) ==
    CHOOSE i \in 1..j :
        /\ \A m \in i..(j - 1) : log[m].depth > log[j].depth
        /\ i = 1 \/ log[i - 1].depth <= log[j].depth

Kids(j) == SortSet({i \in Start(j)..(j - 1) : log[i].depth = log[j].depth + 1})

Returned == result \in {"true", "false"}

TypeErr(path, arg) == [path |-> path, kind |-> "type", arg |-> arg]

-----------------------------------------------------------------------------
(* C1: validate returns true exactly when the call appended no error, and  *)
(* so does every _validate_value call inside it: a call that returned      *)
(* false has appended at least one error, a call that returned true none.  *)
ValidIffNoErrors ==
    /\ Returned => (result = "true" <=> errors = <<>>)
    /\ \A j \in 1..Len(log) :
          (log[j].kw = "node" /\ log[j].ok # "raised")
          => (log[j].ok = "true" <=> log[j].post = log[j].pre)

\* A call that failed in a nested node while a sibling node passed.
ValidIffNoErrorsWitness ==
    /\ result = "false"
    /\ errors # <<>>
    /\ \E i, j \in 1..Len(log) :
          /\ log[i].kw = "node" /\ log[i].depth = 2 /\ log[i].ok = "true"
          /\ log[j].kw = "node" /\ log[j].depth = 2 /\ log[j].ok = "false"

(* C2: after any sequence of validate calls on one instance, the list      *)
(* holds exactly what the last call appended, in order: what a new         *)
(* validator reports for the same arguments.  The call starts from the     *)
(* empty list whatever it found, and every check in it only appends.       *)
LastCallErrorsOnly ==
    calls > 0 =>
      /\ errors = validate(document, schema, <<>>).st.errors
      /\ log[Len(log)].pre = <<>>
      /\ log[Len(log)].post = errors
      /\ \A j \in 1..Len(log) :
            /\ IsPrefix(log[j].pre, log[j].post)
            /\ IsPrefix(log[j].post, errors)

\* A second call that found errors of the first and left other errors.
LastCallErrorsOnlyWitness ==
    /\ calls >= 2
    /\ before # <<>>
    /\ Len(errors) >= 2
    /\ \A i \in 1..Len(errors) : \A j \in 1..Len(before) : errors[i] # before[j]

(* C3: validate ends with a boolean for every decoded value and schema;    *)
(* no exception leaves the engine.                                         *)
NoExceptionEscapes == result # "raised"

\* The type names a value of each kind satisfies.
KindNames(k) ==
    CASE k = "null" -> {TNull}
      [] k = "bool" -> {TBoolean}
      [] k = "int" -> {TInteger, TNumber}
      [] k = "float" -> {TNumber}
      [] k = "str" -> {TString}
      [] k = "arr" -> {TArray}
      [] k = "obj" -> {TObject}

IsNameList(a) == IsList(a) /\ \A i \in 1..Len(a.v) : IsStr(a.v[i])

NamesOf(a) == IF IsStr(a) THEN {a.v} ELSE {a.v[i].v : i \in 1..Len(a.v)}

(* C4: a boolean fails a `type` that is "number", "integer" or a list of   *)
(* names without "boolean", and the failure appends one type error at the  *)
(* node's path; a list of names is satisfied when one of its names is; a   *)
(* name outside the seven is satisfied by no value.                        *)
BooleanIsNoNumber ==
    \A j \in 1..Len(log) :
       LET e == log[j]
       IN (e.kw = "type" /\ (IsStr(e.arg) \/ IsNameList(e.arg))) =>
            /\ e.ok = (IF NamesOf(e.arg) \cap KindNames(e.value.k) # {}
                       THEN "true" ELSE "false")
            /\ (e.value.k = "bool" /\ TBoolean \notin NamesOf(e.arg))
                  => e.ok = "false"
            /\ NamesOf(e.arg) \cap TypeNames = {} => e.ok = "false"
            /\ e.ok = "false" => e.post = Append(e.pre, TypeErr(e.path, e.arg))
            /\ e.ok = "true" => e.post = e.pre

\* True checked against ["number", "integer"].
BooleanIsNoNumberWitness ==
    /\ document = JBool(TRUE)
    /\ schema = Schema1(KType, StrList(<<TNumber, TInteger>>))
    /\ result = "false"
    /\ errors = <<TypeErr(<<>>, StrList(<<TNumber, TInteger>>))>>

\* Deep equality in which a boolean never equals a number.
RECURSIVE KindEq(_, _)
KindEq(a, b) ==
    IF (a.k = "bool") # (b.k = "bool") THEN FALSE
    ELSE IF IsNum(a) /\ IsNum(b) THEN NumVal(a) = NumVal(b)
    ELSE IF a.k # b.k THEN FALSE
    ELSE CASE a.k = "null" -> TRUE
           [] a.k = "str" -> a.v = b.v
           [] a.k = "arr" -> /\ Len(a.v) = Len(b.v)
                             /\ \A i \in 1..Len(a.v) : KindEq(a.v[i], b.v[i])
           [] a.k = "obj" -> /\ Len(a.v) = Len(b.v)
                             /\ \A i \in 1..Len(a.v) :
                                   /\ HasKey(b, a.v[i][1])
                                   /\ KindEq(a.v[i][2], Get(b, a.v[i][1]))

(* C5: the enum check keeps booleans and numbers apart, at any depth: a    *)
(* value is accepted only if the list holds a member equal to it under an  *)
(* equality in which a boolean never equals a number.                      *)
EnumKeepsKindsApart ==
    \A j \in 1..Len(log) :
       LET e == log[j]
       IN (e.kw = "enum" /\ IsList(e.arg) /\ e.ok = "true")
            => \E i \in 1..Len(e.arg.v) : KindEq(e.arg.v[i], e.value)

-----------------------------------------------------------------------------
(* C6.  What the value at one position violates, keyword by keyword, as    *)
(* the engine's own checks decide it.                                      *)

Err(path, kind, arg) == [path |-> path, kind |-> kind, arg |-> arg]

ErrSet == {errors[i] : i \in 1..Len(errors)}

TypeViol(v, s, p) ==
    IF HasKey(s, KType) /\ TypeOutcome(v, Get(s, KType)) = "false"
    THEN {Err(p, "type", Get(s, KType))} ELSE {}

EnumViol(v, s, p) ==
    IF HasKey(s, KEnum) /\ PyIn(v, Get(s, KEnum)) = "false"
    THEN {Err(p, "enum", Get(s, KEnum))} ELSE {}

PatternViol(v, s, p) ==
    IF HasKey(s, KPattern) /\ IsStr(v) /\ IsStr(Get(s, KPattern))
    THEN LET pat == Get(s, KPattern)
         IN IF ReInvalid(pat.v) THEN {Err(p, "invalid_pattern", pat)}
            ELSE IF ~ReMatch(pat.v, v.v) THEN {Err(p, "pattern", pat)}
            ELSE {}
    ELSE {}

\* The entries that are missing, up to the first entry that cannot be
\* looked up.
RequiredViol(v, s, p) ==
    IF HasKey(s, KRequired) /\ IsDict(v) /\ Iterable(Get(s, KRequired))
    THEN LET names == IterSeq(Get(s, KRequired))
         IN {Err(p, "required", names[i]) :
                i \in {n \in 1..Len(names) :
                          /\ \A m \in 1..n : Hashable(names[m])
                          /\ ~(IsStr(names[n]) /\ HasKey(v, names[n].v))}}
    ELSE {}

TypePasses(v, s) ==
    ~HasKey(s, KType) \/ TypeOutcome(v, Get(s, KType)) = "true"

EnumPasses(v, s) ==
    ~HasKey(s, KEnum) \/ PyIn(v, Get(s, KEnum)) = "true"

PatternPasses(v, s) ==
    \/ ~(HasKey(s, KPattern) /\ IsStr(v))
    \/ /\ IsStr(Get(s, KPattern))
       /\ ~ReInvalid(Get(s, KPattern).v)
       /\ ReMatch(Get(s, KPattern).v, v.v)

ViolationsAt(v, s, p) ==
    IF ~IsDict(s) THEN {Err(p, "schema", JNull)}
    ELSE TypeViol(v, s, p) \cup EnumViol(v, s, p)
         \cup PatternViol(v, s, p) \cup RequiredViol(v, s, p)

\* The children the position has through `properties` and `items`.
ChildrenOf(v, s, p) ==
    IF ~IsDict(s) THEN {}
    ELSE (IF HasKey(s, KProperties) /\ IsDict(v) /\ IsDict(Get(s, KProperties))
          THEN {<<v.v[i][2], Get(Get(s, KProperties), v.v[i][1]),
                  prop_path(p, v.v[i][1])>> :
                   i \in {n \in 1..Len(v.v) :
                             HasKey(Get(s, KProperties), v.v[n][1])}}
          ELSE {})
         \cup
         (IF HasKey(s, KItems) /\ IsList(v)
          THEN {<<v.v[i], Get(s, KItems), item_path(p, i)>> : i \in 1..Len(v.v)}
          ELSE {})

RECURSIVE AllViolations(_, _, _)
\* Every violation at every position under <<v, s, p>>.
AllViolations(v, s, p) ==
    ViolationsAt(v, s, p)
    \cup UNION {AllViolations(c[1], c[2], c[3]) : c \in ChildrenOf(v, s, p)}

\* What the first keyword that does not pass here, in the order of the
\* checks, is violated by (nothing when its check ends in an exception).
FirstViolation(v, s, p) ==
    IF ~IsDict(s) THEN {Err(p, "schema", JNull)}
    ELSE IF ~TypePasses(v, s) THEN TypeViol(v, s, p)
    ELSE IF ~EnumPasses(v, s) THEN EnumViol(v, s, p)
    ELSE IF ~PatternPasses(v, s) THEN PatternViol(v, s, p)
    ELSE RequiredViol(v, s, p)

RECURSIVE VisitedViolations(_, _, _)
\* The first violation of each position the traversal visits: a position
\* with a violation of its own is not descended into.
VisitedViolations(v, s, p) ==
    IF FirstViolation(v, s, p) # {} THEN FirstViolation(v, s, p)
    ELSE UNION {VisitedViolations(c[1], c[2], c[3]) : c \in ChildrenOf(v, s, p)}

(* C6 as stated: after validate has returned, the list holds an error for  *)
(* every keyword violation at every position reachable from the root       *)
(* through `properties` and `items`.                                       *)
AllViolationsReported ==
    Returned => AllViolations(document, schema, <<>>) \subseteq ErrSet

(* C6 as amended: after validate, the list holds an error for the first    *)
(* violated keyword (in the order type, enum, pattern, required; one       *)
(* error per missing name) of every position the traversal visited.  When  *)
(* validate returns, the visited positions are the root and the children,  *)
(* through `properties` and `items`, of visited positions that violate     *)
(* none of these keywords.                                                 *)
FirstViolationsReported ==
    /\ \A j \in 1..Len(log) :
          log[j].kw = "node"
          => FirstViolation(log[j].value, log[j].arg, log[j].path) \subseteq ErrSet
    /\ Returned => VisitedViolations(document, schema, <<>>) \subseteq ErrSet

\* A call that reported errors at two positions and left out a violation
\* behind a failed keyword.
FirstViolationsReportedWitness ==
    /\ Returned
    /\ \E i, j \in 1..Len(errors) : errors[i].path # errors[j].path
    /\ ~(AllViolations(document, schema, <<>>) \subseteq ErrSet)

(* C7: the `required` check of an object at path p appends one "Missing    *)
(* required property" error per entry of `required` that is not a key of   *)
(* the object, all at path p, in the order of `required`, none for an      *)
(* entry that is a key, and fails exactly when an entry is missing.        *)
OneErrorPerMissingName ==
    \A j \in 1..Len(log) :
       LET e == log[j]
           miss == SelectSeq(e.arg.v, LAMBDA x : ~HasKey(e.value, x.v))
       IN (e.kw = "required" /\ IsNameList(e.arg)) =>
            /\ e.post = e.pre \o [i \in 1..Len(miss) |->
                                     Err(e.path, "required", miss[i])]
            /\ e.ok = (IF miss = <<>> THEN "true" ELSE "false")

\* A nested object, at path "name", that misses two of its required names.
OneErrorPerMissingNameWitness ==
    \E j \in 1..Len(log) :
       /\ log[j].kw = "required"
       /\ log[j].path = SName
       /\ log[j].arg = StrList(<<SZip, SAge>>)
       /\ Appended(log[j]) = <<Err(SName, "required", JStr(SZip)),
                               Err(SName, "required", JStr(SAge))>>
       /\ log[j].pre # <<>>

(* C8: the `items` check of an array at path p validates every element,   *)
(* in index order, against the one `items` schema at path p[i], whether    *)
(* or not an earlier element failed; every error it appends comes from an  *)
(* element that is itself invalid and has a path that starts with that     *)
(* element's p[i]; an element that conforms appends nothing; the check     *)
(* fails exactly when an element fails.  (Only an exception raised in an   *)
(* element's check ends the loop before the last element.)                 *)
EveryItemChecked ==
    \A j \in 1..Len(log) :
       LET e == log[j]
           ks == Kids(j)
           n == Len(e.value.v)
           seen == Len(ks)
       IN e.kw = "items" =>
            /\ IF e.ok = "raised"
               THEN seen \in 1..n /\ log[ks[seen]].ok = "raised"
               ELSE seen = n
            /\ \A i \in 1..seen :
                  LET c == log[ks[i]]
                  IN /\ c.kw = "node"
                     /\ i < seen => c.ok # "raised"
                     /\ c.value = e.value.v[i]
                     /\ c.arg = e.arg
                     /\ c.path = e.path \o <<"[", ToString(i - 1), "]">>
                     /\ c.pre = (IF i = 1 THEN e.pre ELSE log[ks[i - 1]].post)
                     /\ IsPrefix(c.pre, c.post)
                     /\ c.ok = "true" => c.post = c.pre
                     /\ \A m \in 1..Len(Appended(c)) :
                           /\ c.ok = "false"
                           /\ IsPrefix(c.path, Appended(c)[m].path)
            /\ e.post = (IF seen = 0 THEN e.pre ELSE log[ks[seen]].post)
            /\ e.ok # "raised" =>
                  e.ok = (IF \E i \in 1..n : log[ks[i]].ok = "false"
                          THEN "false" ELSE "true")

\* [1, 2, "x"] against items of type integer: one error, at [2].
EveryItemCheckedWitness ==
    /\ document = JArr(<<JInt(1), JInt(2), JStr(<<"x">>)>>)
    /\ schema = JObj(<< <<KItems, TInt>>, <<KType, JStr(TArray)>> >>)
    /\ result = "false"
    /\ errors = <<Err(<<"[", "2", "]">>, "type", JStr(TInteger))>>

(* C9: the `properties` check of an object at path p, for a `properties`   *)
(* that is a mapping, recurses into exactly the keys of the value that are *)
(* keys of `properties`, in the value's key order, at path key when p is   *)
(* empty and p.key otherwise, all of them whatever failed before; it       *)
(* appends no error of its own, so a key only in the value or only in      *)
(* `properties` produces none; it fails exactly when a child fails.        *)
(* (Only an exception raised in a child's check ends the loop early.)      *)
CommonKeysChecked ==
    \A j \in 1..Len(log) :
       LET e == log[j]
           ks == Kids(j)
           common == SelectSeq(Keys(e.value), LAMBDA key : HasKey(e.arg, key))
           n == Len(common)
           seen == Len(ks)
       IN (e.kw = "properties" /\ IsDict(e.arg)) =>
            /\ IF e.ok = "raised"
               THEN seen \in 1..n /\ log[ks[seen]].ok = "raised"
               ELSE seen = n
            /\ \A i \in 1..seen :
                  LET c == log[ks[i]]
                  IN /\ c.kw = "node"
                     /\ i < seen => c.ok # "raised"
                     /\ c.value = Get(e.value, common[i])
                     /\ c.arg = Get(e.arg, common[i])
                     /\ c.path = (IF e.path = <<>> THEN common[i]
                                  ELSE e.path \o <<".">> \o common[i])
                     /\ c.pre = (IF i = 1 THEN e.pre ELSE log[ks[i - 1]].post)
            /\ e.post = (IF seen = 0 THEN e.pre ELSE log[ks[seen]].post)
            /\ e.ok # "raised" =>
                  e.ok = (IF \E i \in 1..n : log[ks[i]].ok = "false"
                          THEN "false" ELSE "true")

\* A nested `properties` check, at path "name", whose child failed, after
\* which the parent went on to the next key.
CommonKeysCheckedWitness ==
    /\ \E j \in 1..Len(log) :
          /\ log[j].kw = "properties"
          /\ log[j].path = SName
          /\ Appended(log[j]) = <<Err(SName \o <<".">> \o SAge, "type", JStr(TString))>>
    /\ \E j \in 1..Len(log) :
          /\ log[j].kw = "node"
          /\ log[j].path = SAge
          /\ log[j].pre # <<>>

\* The keyword checks in the order of the code, and when each is due.
KwSeq == <<"type", "enum", "pattern", "required", "properties", "items">>

KwKey == <<KType, KEnum, KPattern, KRequired, KProperties, KItems>>

Applies(i, value, sch) ==
    /\ HasKey(sch, KwKey[i])
    /\ CASE i \in {1, 2} -> TRUE
         [] i = 3 -> value.k = "str"
         [] i \in {4, 5} -> value.k = "obj"
         [] i = 6 -> value.k = "arr"

(* C10: at every node the keyword checks run in the order type, enum,      *)
(* pattern (strings), required (objects), properties (objects), items      *)
(* (arrays), each on the node's value and path, and the first that does    *)
(* not pass ends the node: no later keyword is checked, the node appends   *)
(* nothing but what the checks it ran appended.  A schema that is not an   *)
(* object gets one "Schema must be an object" error and no check.          *)
FirstFailureEndsNode ==
    \A j \in 1..Len(log) :
       LET e == log[j]
           ks == Kids(j)
           n == Len(ks)
           due == SelectSeq(<<1, 2, 3, 4, 5, 6>>,
                            LAMBDA i : Applies(i, e.value, e.arg))
       IN e.kw = "node" =>
            IF ~IsDict(e.arg)
            THEN /\ n = 0
                 /\ e.post = Append(e.pre, Err(e.path, "schema", JNull))
                 /\ e.ok = "false"
            ELSE /\ n <= Len(due)
                 /\ \A i \in 1..n :
                       LET c == log[ks[i]]
                       IN /\ c.kw = KwSeq[due[i]]
                          /\ c.path = e.path
                          /\ c.value = e.value
                          /\ c.arg = Get(e.arg, KwKey[due[i]])
                          /\ c.pre = (IF i = 1 THEN e.pre ELSE log[ks[i - 1]].post)
                          /\ i < n => c.ok = "true"
                 /\ n < Len(due) => (n > 0 /\ log[ks[n]].ok # "true")
                 /\ e.post = (IF n = 0 THEN e.pre ELSE log[ks[n]].post)
                 /\ e.ok = (IF n = 0 THEN "true" ELSE log[ks[n]].ok)

\* An array whose elements are checked one after the other: in one the
\* failed `required` kept `properties` from running, and the next
\* element was still checked.
FirstFailureEndsNodeWitness ==
    \E j, m \in 1..Len(log) :
       /\ j < m
       /\ log[j].kw = "node" /\ log[m].kw = "node"
       /\ log[j].depth = 2 /\ log[m].depth = 2
       /\ HasKey(log[j].arg, KRequired) /\ HasKey(log[j].arg, KProperties)
       /\ log[j].ok = "false"
       /\ Len(Kids(j)) = 1
       /\ log[Kids(j)[1]].kw = "required"
       /\ PropertiesLoop(log[j].value, Get(log[j].arg, KProperties),
                         1, log[j].path, 3, TRUE, NewSt(<<>>)).st.errors # <<>>

====
